---- MODULE Spec2Model ----
(***************************************************************************)
(* StreamForge: the asynchronous transcoding pipeline.                     *)
(*                                                                         *)
(*   lib/queue.js (src/unnamed/part_001)  the 'video-transcoding' queue    *)
(*   worker.js                            processVideoJob, 2 slots/Worker  *)
(*   server-async.js                      progress stream (SSE), delivery  *)
(*                                                                         *)
(* The job ledger is the BullMQ queue the code configures; its operations  *)
(* (add, moveToActive, updateProgress, moveToFinished, the stalled-job     *)
(* check, the event stream read by QueueEvents) are modelled as the        *)
(* library executes them for the options the source passes.                *)
(***************************************************************************)
EXTENDS Integers, Sequences, FiniteSets, TLC

(* ------------------------------ bounds --------------------------------- *)
NumJobs == 2
NumSlots == 2
NumSubs == 1
MaxOrphans == 1
MaxPending == 1
MaxWorkers == 2
NumReqs == 2
ObjSize == 4

(* ------------------------- program constants --------------------------- *)
attempts == 3
delay == 2000
maxStalledCount == 1

Jobs == 1..NumJobs
Slots == 1..NumSlots
Subs == 1..NumSubs
Reqs == 1..NumReqs
None == 0
Undef == -1

\* worker.js:18-23
qualities == <<"1080p", "720p", "360p">>

\* what the transformation tool may hand to the 'progress' handler as
\* progress.percent: a number, or nothing at all
ToolPercents == {Undef, 50, 100}

\* the same, every whole percent
MaxPercent == 100
AllPercents == {Undef} \cup 0..MaxPercent

VARIABLES
  state,        \* job -> "none" | "waiting" | "delayed" | "active" | "completed" | "failed"
  wait,         \* the queue's wait list, head = next job handed out
  attemptsMade, \* job -> failed attempts recorded by the queue
  stalledCount, \* job -> times the stalled-job check moved it back
  progress,     \* job -> job.progress
  returnvalue,  \* job -> set of variant names of the stored result map, or {} (unset)
  failedReason, \* job -> "" | reason
  timer,        \* job -> what is left of the backoff delay of a delayed job, ms
  lock,         \* job -> slot whose lock key exists, or None
  objects,      \* object store: set of <<job, variant>> keys transcoded/<job>/<variant>.mp4
  scratch,      \* job -> its scratch directories tmp/<job>, transcoded/<job> exist
  stream,       \* queue events published and not yet read by QueueEvents
  sJob,         \* slot -> job it runs processVideoJob for, or None
  sPc,          \* slot -> position inside processVideoJob
  sK,           \* slot -> completedQualities
  sPct,         \* slot -> last percent of the running tool, Undef before any
  sLease,       \* slot -> its claim has not expired
  execs,        \* job -> times processVideoJob was started for it
  subPc,        \* subscription -> position of GET /api/jobs/:id/progress
  subJob,       \* subscription -> req.params.id
  subProg,      \* subscription -> job.progress of its snapshot, then the last progress written
  subNw,        \* subscription -> writes that reached the channel, modulo WriteMod
  subTerms,     \* subscription -> terminal events written
  subHb,        \* subscription -> the heartbeat interval is set
  subErr,       \* subscription -> a write was tried after res.end()
  subSkip,      \* subscription -> a listener of it ran for another job's event
  subGone,      \* subscription -> its request emitted 'close' before the handler
                \*   listened for it
  req,          \* the delivery request in flight: position, params, header, job snapshot
  res,          \* the response it produced
  up,           \* the answer of the last POST /api/upload
  anonUploads,  \* anon_uploads:<ip> of the anonymous client
  originals,    \* uploads/<uuid>/<name> objects in the store
  videos,       \* job ids of the rows of the videos table
  conn,         \* connection.status of the server's Redis connection
  workers,      \* Worker processes registered on the queue (getWorkers())
  health,       \* the last answer of GET /api/health, with what its queries did
  anonTtl,      \* anon_uploads:<ip> carries an expiry
  rq,           \* upload request -> position in POST /api/upload, req.user, the count
                \*   it read, its temporary file exists, the call that threw, an
                \*   unlink failed on the existing file, its answer
  anonAccepted, \* anonymous uploads queued since anon_uploads:<ip> last expired
  wconn,        \* status of `connection` in the worker process
  term,         \* the worker process after SIGTERM: its two handlers' positions
  sjob,         \* server.js: job -> its entry in the `jobs` map and the position of
                \*   transcodeVideo
  sres          \* server.js: the last answer of GET /api/jobs/:id/status

ledgerVars == <<state, wait, attemptsMade, stalledCount, progress, returnvalue,
                failedReason, timer, lock>>
slotVars == <<sJob, sPc, sK, sPct, sLease>>
histVars == <<execs>>
pipelineVars == <<ledgerVars, objects, scratch, stream, slotVars, histVars>>

subVars == <<subPc, subJob, subProg, subNw, subTerms, subHb, subErr, subSkip, subGone>>

reqVars == <<req, res>>

uploadVars == <<up, anonUploads, anonTtl, originals, videos>>

healthVars == <<conn, workers, health>>

\* what the queue, the worker slots, the progress stream, the delivery and the
\* upload leave alone
anonVars == <<rq, anonAccepted>>

termVars == <<wconn, term>>

\* what the health endpoint and the upload requests leave alone
syncVars == <<sjob, sres>>

lateVars == <<termVars, syncVars>>

restVars == <<healthVars, anonVars, lateVars>>

vars == <<pipelineVars, subVars, reqVars, uploadVars, restVars>>

(* --------------------------- pure functions ---------------------------- *)

\* (mutant) the quotient is truncated
RoundDiv3_Floor(x) == x \div 3

\* Math.round(x / 3) for an integer x >= 0 (round half up)
RoundDiv3(x) == (2 * x + 3) \div 6

\* worker.js:41-45
TotalProgress(completedQualities, percent) ==
  LET qualityProgress == completedQualities * 100
      currentProgress == IF percent = Undef THEN 0 ELSE percent
  IN RoundDiv3(qualityProgress + currentProgress)

\* the spec's four states: a job waiting for its backoff is queued
LedgerState(st) ==
  IF st \in {"waiting", "delayed"} THEN "queued" ELSE st

RECURSIVE Pow2(_)
Pow2(n) == IF n <= 0 THEN 1 ELSE 2 * Pow2(n - 1)

\* (mutant) the older formula delay * (2^attemptsMade - 1)
Backoff_Minus1(made) == delay * (Pow2(made) - 1)

\* exponential backoff of the queue: delay * 2^(attemptsMade - 1)
Backoff(made) == delay * Pow2(made - 1)

Event(type, j, data) == [type |-> type, jobId |-> j, data |-> data]

NoRange == <<>>

NoRequest == [pc |-> "idle", id |-> None, quality |-> "", range |-> NoRange,
              returnvalue |-> {}, state |-> ""]

NoContentRange == [unit |-> "", start |-> Undef, sep |-> "", end |-> Undef,
                   size |-> Undef]

NoResponse == [status |-> 0, error |-> "", headers |-> {}, contentType |-> "",
               contentLength |-> Undef, contentRange |-> NoContentRange,
               acceptRanges |-> "", body |-> <<>>, reads |-> {}]

NoUploadRequest == [pc |-> "idle", user |-> None, count |-> 0, tmp |-> FALSE,
                    threw |-> "", unlinkErr |-> FALSE, status |-> None]

NoSyncJob == [status |-> "none", progress |-> 0, completedQualities |-> 0,
              outputs |-> {}, pc |-> "none"]

NoSyncStatus == [id |-> None, status |-> "", progress |-> 0, outputs |-> {}]

NoSigterm == [worker |-> "none", queue |-> "none"]

NoHealth == [status |-> None, body |-> "", fault |-> "none"]

NoUpload == [status |-> 0, error |-> "", jobId |-> None]

(* ------------------------------- Init ---------------------------------- *)
Init ==
  /\ state = [j \in Jobs |-> "none"]
  /\ wait = <<>>
  /\ attemptsMade = [j \in Jobs |-> 0]
  /\ stalledCount = [j \in Jobs |-> 0]
  /\ progress = [j \in Jobs |-> 0]
  /\ returnvalue = [j \in Jobs |-> {}]
  /\ failedReason = [j \in Jobs |-> ""]
  /\ timer = [j \in Jobs |-> 0]
  /\ lock = [j \in Jobs |-> None]
  /\ objects = {}
  /\ scratch = [j \in Jobs |-> FALSE]
  /\ stream = <<>>
  /\ sJob = [s \in Slots |-> None]
  /\ sPc = [s \in Slots |-> "idle"]
  /\ sK = [s \in Slots |-> 0]
  /\ sPct = [s \in Slots |-> Undef]
  /\ sLease = [s \in Slots |-> FALSE]
  /\ execs = [j \in Jobs |-> 0]
  /\ subPc = [c \in Subs |-> "none"]
  /\ subJob = [c \in Subs |-> None]
  /\ subProg = [c \in Subs |-> 0]
  /\ subNw = [c \in Subs |-> 0]
  /\ subTerms = [c \in Subs |-> 0]
  /\ subHb = [c \in Subs |-> FALSE]
  /\ subErr = [c \in Subs |-> FALSE]
  /\ subSkip = [c \in Subs |-> FALSE]
  /\ subGone = [c \in Subs |-> FALSE]
  /\ req = NoRequest
  /\ res = NoResponse
  /\ up = NoUpload
  /\ anonUploads = 0
  /\ originals = 0
  /\ videos = {}
  /\ conn = "wait"
  /\ workers = 0
  /\ health = NoHealth
  /\ anonTtl = FALSE
  /\ rq = [r \in Reqs |-> NoUploadRequest]
  /\ anonAccepted = 0
  /\ wconn = "ready"
  /\ term = NoSigterm
  /\ sjob = [j \in Jobs |-> NoSyncJob]
  /\ sres = NoSyncStatus

(* ---------------------------- the queue -------------------------------- *)

\* the queue publishes into its event stream
Publish(ev) == Append(stream, ev)
CanPublish == Len(stream) < MaxPending

(* --------------------------- POST /api/upload -------------------------- *)

\* lib/ratelimit.js:6
ANON_UPLOAD_LIMIT == 1

\* req.user: nobody (no valid token), or a user
Anonymous == None
User == 1
Users == {Anonymous, User}

\* the call of the handler that fails, if any: the rate limit's Redis read,
\* the upload of the original, the removal of the temporary file, the queue's
\* add, the insert into the videos table
Faults == {"none", "limit", "storage", "unlink", "queue", "db"}

\* lib/ratelimit.js:14-26  checkAnonUploadLimit
Allowed(count) == count < ANON_UPLOAD_LIMIT

\* (mutant) a failed insert into the videos table is thrown to the catch block
UploadOutcome_DbThrows(file, user, count, fault) ==
  [status |-> IF fault = "none" THEN 200 ELSE 500,
   error |-> IF fault = "none" THEN "" ELSE "Upload failed",
   counted |-> user = Anonymous,
   stored |-> TRUE,
   queued |-> TRUE,
   row |-> FALSE]

\* part_004:50-132  how far the handler gets and what it answers: 400 without
\* a file, 401 for an anonymous client at its limit, 500 from the catch block
\* when a call throws, the job id otherwise (a failed insert is only logged)
UploadOutcome(file, user, count, fault) ==
  LET no == [status |-> 0, error |-> "", counted |-> FALSE, stored |-> FALSE,
             queued |-> FALSE, row |-> FALSE]
      anon == user = Anonymous
      failed500 == [no EXCEPT !.status = 500, !.error = "Upload failed"]
  IN
  IF ~file THEN [no EXCEPT !.status = 400, !.error = "No video file provided"]
  ELSE IF anon /\ fault = "limit" THEN failed500
  ELSE IF anon /\ ~Allowed(count)
    THEN [no EXCEPT !.status = 401, !.error = "Anonymous upload limit reached"]
  ELSE IF fault = "storage" THEN [failed500 EXCEPT !.counted = anon]
  ELSE IF fault \in {"unlink", "queue"}
    THEN [failed500 EXCEPT !.counted = anon, !.stored = TRUE]
  ELSE [no EXCEPT !.status = 200, !.counted = anon, !.stored = TRUE, !.queued = TRUE,
                  !.row = (~anon /\ fault # "db")]

\* part_004:50-132 (server-async.js:40-68 without accounts)  POST /api/upload;
\* j is the id the queue hands out next
Upload(j, file, user, fault) ==
  /\ state[j] = "none"
  /\ \A i \in Jobs : i < j => state[i] # "none"
  /\ LET o == UploadOutcome(file, user, anonUploads, fault) IN
     /\ o.stored => originals < NumJobs + MaxOrphans
     /\ anonUploads' = IF o.counted THEN anonUploads + 1 ELSE anonUploads
     /\ anonTtl' = (anonTtl \/ o.counted)
     /\ originals' = IF o.stored THEN originals + 1 ELSE originals
     /\ IF o.queued
          THEN /\ state' = [state EXCEPT ![j] = "waiting"]
               /\ wait' = Append(wait, j)
          ELSE UNCHANGED <<state, wait>>
     /\ videos' = IF o.row THEN videos \cup {j} ELSE videos
     /\ up' = [status |-> o.status, error |-> o.error,
               jobId |-> IF o.queued /\ o.status = 200 THEN j ELSE None]
  /\ UNCHANGED <<attemptsMade, stalledCount, progress, returnvalue, failedReason,
                 timer, lock, objects, scratch, stream, slotVars, histVars, subVars, reqVars, restVars>>

\* lib/ratelimit.js:39-42  the counter's key expires
AnonExpire ==
  /\ anonUploads > 0
  /\ anonTtl
  /\ anonUploads' = 0
  /\ anonTtl' = FALSE
  /\ anonAccepted' = 0
  /\ UNCHANGED <<pipelineVars, subVars, reqVars, up, originals, videos, healthVars, lateVars, rq>>

\* an upload by a signed-in user in which nothing fails
Submit(j) == Upload(j, TRUE, User, "none")

\* (mutant) the head of the wait list is read but a job already handed out
\* is still offered
Claimable_Stale ==
  wait \o SelectSeq([i \in 1..NumJobs |-> i], LAMBDA i : state[i] = "active")

\* what moveToActive takes a job out of: the wait list
Claimable == wait

\* worker.js:72-75  a free slot of the Worker takes the next waiting job: one
\* atomic move from the wait list to active, the lock set to the slot's token;
\* processVideoJob starts (worker.js:9-16, scratch directories and input)
Claim(s) ==
  /\ sJob[s] = None
  /\ Claimable # <<>>
  /\ LET j == Head(Claimable) IN
     /\ wait' = SelectSeq(wait, LAMBDA i : i # j)
     /\ state' = [state EXCEPT ![j] = "active"]
     /\ lock' = [lock EXCEPT ![j] = s]
     /\ sJob' = [sJob EXCEPT ![s] = j]
     /\ sPc' = [sPc EXCEPT ![s] = "ffmpeg"]
     /\ sK' = [sK EXCEPT ![s] = 0]
     /\ sPct' = [sPct EXCEPT ![s] = Undef]
     /\ sLease' = [sLease EXCEPT ![s] = TRUE]
     /\ execs' = [execs EXCEPT ![j] = @ + 1]
     /\ scratch' = [scratch EXCEPT ![j] = TRUE]
  /\ UNCHANGED <<attemptsMade, stalledCount, progress, returnvalue, failedReason,
                 timer, objects, stream, subVars, reqVars, uploadVars, restVars>>

\* time passes for a delayed job, in steps of `delay`
Tick(j) ==
  /\ state[j] = "delayed"
  /\ timer[j] > 0
  /\ timer' = [timer EXCEPT ![j] = IF @ > delay THEN @ - delay ELSE 0]
  /\ UNCHANGED <<state, wait, attemptsMade, stalledCount, progress, returnvalue,
                 failedReason, lock, objects, scratch, stream, slotVars, histVars, subVars, reqVars, uploadVars, restVars>>

\* a delayed job's backoff has elapsed: back to the wait list
Promote(j) ==
  /\ state[j] = "delayed"
  /\ timer[j] = 0
  /\ state' = [state EXCEPT ![j] = "waiting"]
  /\ wait' = Append(wait, j)
  /\ UNCHANGED <<attemptsMade, stalledCount, progress, returnvalue, failedReason,
                 timer, lock, objects, scratch, stream, slotVars, histVars, subVars, reqVars, uploadVars, restVars>>

\* the slot holding j's lock stopped renewing it (crash, hang, partition):
\* the lock key expires
LockExpire(j) ==
  /\ state[j] = "active"
  /\ lock[j] # None
  /\ lock' = [lock EXCEPT ![j] = None]
  /\ sLease' = [sLease EXCEPT ![lock[j]] = FALSE]
  /\ UNCHANGED <<state, wait, attemptsMade, stalledCount, progress, returnvalue,
                 failedReason, timer, objects, scratch, stream, sJob, sPc, sK, sPct, histVars,
                 subVars, reqVars, uploadVars, restVars>>

\* the stalled-job check finds an active job without a lock: back to the head
\* of the wait list, or failed once it stalled more than maxStalledCount times
StalledCheck(j) ==
  /\ state[j] = "active"
  /\ lock[j] = None
  /\ IF stalledCount[j] + 1 > maxStalledCount
       THEN /\ CanPublish
            /\ state' = [state EXCEPT ![j] = "failed"]
            /\ failedReason' = [failedReason EXCEPT ![j] = "stalled"]
            /\ stream' = Publish(Event("failed", j, "stalled"))
            /\ UNCHANGED wait
       ELSE /\ state' = [state EXCEPT ![j] = "waiting"]
            /\ wait' = <<j>> \o wait
            /\ UNCHANGED <<failedReason, stream>>
  /\ stalledCount' = [stalledCount EXCEPT ![j] = @ + 1]
  /\ UNCHANGED <<attemptsMade, progress, returnvalue, timer, lock, objects, scratch, slotVars,
                 histVars, subVars, reqVars, uploadVars, restVars>>

(* -------------------------- processVideoJob ---------------------------- *)

\* (mutant) the attempt goes on after it has settled
Release_KeepsRunning(s) == UNCHANGED <<sJob, sPc, sK, sPct, sLease>>

\* processVideoJob has settled (returned or thrown): the slot is free
Release(s) ==
  /\ sJob' = [sJob EXCEPT ![s] = None]
  /\ sPc' = [sPc EXCEPT ![s] = "idle"]
  /\ sK' = [sK EXCEPT ![s] = 0]
  /\ sPct' = [sPct EXCEPT ![s] = Undef]
  /\ sLease' = [sLease EXCEPT ![s] = FALSE]

\* (mutant) the queue accepts a result or failure without asking for the lock
HoldsLock_NoCheck(s, j) == TRUE

\* the queue accepts a slot's result or failure only under the slot's own lock
HoldsLock(s, j) == state[j] = "active" /\ lock[j] = s

\* (mutant) one retry too many
RetriesLeft_OffByOne(made) == made <= attempts

\* the queue's retry decision after the attempt that made `made` attempts failed
RetriesLeft(made) == made < attempts

\* the tool's percent grows from one 'progress' event of a variant to the next
Rising(s, percent) == (IF percent = Undef THEN 0 ELSE percent) > sPct[s]

\* worker.js:40-47  the tool's 'progress' event: job.updateProgress(TotalProgress)
\* on every event (the queue stores the value as it comes and publishes a
\* progress event; no lock is asked, nothing is compared with the stored value)
ToolProgress(s, percent) ==
  /\ sPc[s] = "ffmpeg"
  /\ CanPublish
  /\ LET j == sJob[s]
         cur == IF percent = Undef THEN 0 ELSE percent
         v == TotalProgress(sK[s], percent)
     IN /\ sPct' = [sPct EXCEPT ![s] = cur]
        /\ progress' = [progress EXCEPT ![j] = v]
        /\ stream' = Publish(Event("progress", j, v))
  /\ UNCHANGED <<state, wait, attemptsMade, stalledCount, returnvalue, failedReason,
                 timer, lock, objects, scratch, sJob, sPc, sK, sLease, histVars, subVars, reqVars, uploadVars, restVars>>

\* worker.js:50  `transcoded/${job.id}/${quality.name}.mp4`: the key an attempt
\* uploads a variant under; the attempt is no part of it
transcodeKey(job, quality, attempt) == <<job, quality>>

\* worker.js:48-54  the tool's 'end' event: completedQualities++, the variant
\* is uploaded under transcoded/<job>/<variant>.mp4, resolve()
ToolEnd(s) ==
  /\ sPc[s] = "ffmpeg"
  /\ LET k == sK[s] + 1 IN
     /\ sK' = [sK EXCEPT ![s] = k]
     /\ objects' = objects \cup {transcodeKey(sJob[s], qualities[k], execs[sJob[s]])}
     /\ sPc' = [sPc EXCEPT ![s] = IF k = Len(qualities) THEN "cleanup" ELSE "ffmpeg"]
     /\ sPct' = [sPct EXCEPT ![s] = Undef]
  /\ UNCHANGED <<ledgerVars, scratch, stream, sJob, sLease, histVars, subVars, reqVars,
                 uploadVars, restVars>>

\* worker.js:48-55  uploadFile rejects inside the async 'end' handler: neither
\* resolve nor reject is called, the attempt never settles
UploadRejects(s) ==
  /\ sPc[s] = "ffmpeg"
  /\ sK' = [sK EXCEPT ![s] = @ + 1]
  /\ sPc' = [sPc EXCEPT ![s] = "hung"]
  /\ UNCHANGED <<ledgerVars, objects, scratch, stream, sJob, sPct, sLease, histVars, subVars, reqVars, uploadVars, restVars>>

\* (mutant) the last variant's entry is not written into output
Output_DropsLast(s) == {qualities[i] : i \in 1..(sK[s] - 1)}

\* the keys of the result map processVideoJob returns
Output(s) == {qualities[i] : i \in 1..sK[s]}

\* worker.js:64-65  fs.rm(dir, { recursive: true, force: true }): the directory
\* is gone afterwards
rm == FALSE

\* worker.js:64-68  scratch removed, return output: the queue moves the job to
\* completed under the slot's lock, or refuses when the lock is gone
Complete(s) ==
  /\ sPc[s] = "cleanup"
  /\ LET j == sJob[s] IN
     IF HoldsLock(s, j)
       THEN /\ CanPublish
            /\ state' = [state EXCEPT ![j] = "completed"]
            /\ returnvalue' = [returnvalue EXCEPT ![j] = Output(s)]
            /\ lock' = [lock EXCEPT ![j] = None]
            /\ stream' = Publish(Event("completed", j, Output(s)))
       ELSE UNCHANGED <<state, returnvalue, lock, stream>>
  /\ scratch' = [scratch EXCEPT ![sJob[s]] = rm]
  /\ Release(s)
  /\ UNCHANGED <<wait, attemptsMade, stalledCount, progress, failedReason, timer,
                 objects, histVars, subVars, reqVars, uploadVars, restVars>>

\* worker.js:14, 56-60, 64-65  the attempt throws (input download, the tool's
\* 'error' event, scratch removal): the queue records a failed attempt under
\* the slot's lock (attemptsMade and the error's message as failedReason), then
\* retries with backoff or fails the job for good
Throw(s) ==
  /\ sPc[s] \in {"ffmpeg", "cleanup"}
  /\ LET j == sJob[s]
         made == attemptsMade[j] + 1
     IN
     IF HoldsLock(s, j)
       THEN /\ attemptsMade' = [attemptsMade EXCEPT ![j] = made]
            /\ failedReason' = [failedReason EXCEPT ![j] = "error"]
            /\ lock' = [lock EXCEPT ![j] = None]
            /\ IF RetriesLeft(made)
                 THEN /\ state' = [state EXCEPT ![j] = "delayed"]
                      /\ timer' = [timer EXCEPT ![j] = Backoff(made)]
                      /\ UNCHANGED stream
                 ELSE /\ CanPublish
                      /\ state' = [state EXCEPT ![j] = "failed"]
                      /\ stream' = Publish(Event("failed", j, "error"))
                      /\ UNCHANGED timer
       ELSE UNCHANGED <<state, attemptsMade, failedReason, timer, lock, stream>>
  /\ Release(s)
  /\ UNCHANGED <<wait, stalledCount, progress, returnvalue, objects, scratch, histVars, subVars, reqVars, uploadVars, restVars>>

\* the Worker process is restarted after its claim was lost
Restart(s) ==
  /\ sJob[s] # None
  /\ ~sLease[s]
  /\ Release(s)
  /\ UNCHANGED <<ledgerVars, objects, scratch, stream, histVars, subVars, reqVars, uploadVars, restVars>>

(* -------------------------- GET /api/jobs/:id -------------------------- *)

\* server-async.js:79-86  the answer for a job in state st whose stored result
\* has the variants rv: the result map for a completed job, a text otherwise
Snapshot(st, rv) ==
  [status |-> st,
   result |-> IF st = "completed" THEN rv ELSE {},
   text |-> IF st = "completed" THEN ""
            ELSE IF st = "failed" THEN "Job Failed" ELSE "Job still processing"]

(* ------------------ GET /api/jobs/:id/progress (SSE) ------------------- *)

WriteMod == 3

\* res.write on a response that has not ended reaches the channel
Written(n) == (n + 1) % WriteMod

\* server-async.js:112-115  videoQueue.getJob(id): the handler's snapshot of
\* the job (404 and no subscription when the job does not exist)
SubGetJob(c, j) ==
  /\ subPc[c] = "none"
  /\ state[j] # "none"
  /\ subPc' = [subPc EXCEPT ![c] = "gotJob"]
  /\ subJob' = [subJob EXCEPT ![c] = j]
  /\ subProg' = [subProg EXCEPT ![c] = progress[j]]
  /\ UNCHANGED <<pipelineVars, subNw, subTerms, subHb, subErr, subSkip, subGone, reqVars,
                 uploadVars, restVars>>

\* server-async.js:118-190  after getState(): the initial message with the
\* snapshot's progress, the three listeners, the heartbeat interval
SubRegister(c) ==
  /\ subPc[c] = "gotJob"
  /\ subPc' = [subPc EXCEPT ![c] = "listening"]
  /\ subNw' = [subNw EXCEPT ![c] = IF subGone[c] THEN @ ELSE Written(@)]
  /\ subHb' = [subHb EXCEPT ![c] = TRUE]
  /\ UNCHANGED <<pipelineVars, subJob, subProg, subTerms, subErr, subSkip, subGone, reqVars,
                 uploadVars, restVars>>

\* server-async.js:112, 126  the observer disconnects while the handler awaits
\* getJob() or getState(): the request emits 'close' now, before
\* req.on('close', ...) (server-async.js:186) is reached
EarlyClose(c) ==
  /\ subPc[c] = "gotJob"
  /\ ~subGone[c]
  /\ subGone' = [subGone EXCEPT ![c] = TRUE]
  /\ UNCHANGED <<pipelineVars, subPc, subJob, subProg, subNw, subTerms, subHb, subErr, subSkip,
                 reqVars, uploadVars, restVars>>

\* (mutant) a listener without the jobId test
Matches_Any(c, ev) == TRUE

\* server-async.js:143, 153, 165  if (eventData.jobId === id)
Matches(c, ev) == ev.jobId = subJob[c]

\* (mutant) a cleanup that leaves the listeners and the response as they are
cleanup_KeepsOpen == "listening"

\* server-async.js:134-139  cleanup(): the listeners are removed, res.end()
cleanup == "ended"

\* the listeners registered on queueEvents are those of the open subscriptions
Listening(c) == subPc[c] = "listening"

\* QueueEvents reads the next event of the stream and emits it to the
\* registered progressListener / failedListener / completedListener
\* (server-async.js:142-174)
Dispatch ==
  /\ stream # <<>>
  /\ stream' = Tail(stream)
  /\ LET ev == Head(stream)
         hit(c) == Listening(c) /\ Matches(c, ev)
         terminal == ev.type \in {"failed", "completed"}
     IN
     /\ subNw' = [c \in Subs |-> IF hit(c) /\ ~subGone[c]
                                   THEN Written(subNw[c]) ELSE subNw[c]]
     /\ subProg' = [c \in Subs |-> IF hit(c) /\ ev.type = "progress"
                                     THEN ev.data ELSE subProg[c]]
     /\ subTerms' = [c \in Subs |-> IF hit(c) /\ terminal /\ ~subGone[c]
                                      THEN subTerms[c] + 1 ELSE subTerms[c]]
     /\ subPc' = [c \in Subs |-> IF hit(c) /\ terminal THEN cleanup ELSE subPc[c]]
     /\ subSkip' = [c \in Subs |-> subSkip[c] \/ (Listening(c) /\ ~Matches(c, ev))]
  /\ UNCHANGED <<ledgerVars, objects, scratch, slotVars, histVars, subJob, subHb, subErr, subGone,
                 reqVars, uploadVars, restVars>>

\* server-async.js:181-183  the 30 s interval fires: res.write(':heartbeat');
\* a write after res.end() is refused by the response and reaches nothing,
\* a write to a connection that is closed is dropped
Heartbeat(c) ==
  /\ subHb[c]
  /\ IF subPc[c] = "listening"
       THEN /\ subNw' = [subNw EXCEPT ![c] = IF subGone[c] THEN @ ELSE Written(@)]
            /\ UNCHANGED subErr
       ELSE subErr' = [subErr EXCEPT ![c] = TRUE] /\ UNCHANGED subNw
  /\ UNCHANGED <<pipelineVars, subPc, subJob, subProg, subTerms, subHb, subSkip, subGone, reqVars,
                 uploadVars, restVars>>

\* server-async.js:186-190  req 'close' (the observer went away, or the
\* response was ended): clearInterval(heartbeat), cleanup(); the subscription
\* is gone and its channel forgotten. A request emits 'close' once: the
\* handler of a request that emitted it earlier is never called
ReqClose(c) ==
  /\ subPc[c] \in {"listening", "ended"}
  /\ ~subGone[c]
  /\ subPc' = [subPc EXCEPT ![c] = "none"]
  /\ subJob' = [subJob EXCEPT ![c] = None]
  /\ subProg' = [subProg EXCEPT ![c] = 0]
  /\ subNw' = [subNw EXCEPT ![c] = 0]
  /\ subTerms' = [subTerms EXCEPT ![c] = 0]
  /\ subHb' = [subHb EXCEPT ![c] = FALSE]
  /\ subErr' = [subErr EXCEPT ![c] = FALSE]
  /\ subSkip' = [subSkip EXCEPT ![c] = FALSE]
  /\ UNCHANGED <<pipelineVars, subGone, reqVars, uploadVars, restVars>>

(* ---------------- POST /api/upload, one await at a time ---------------- *)

\* the handler of request r is at position pc
At(r, pc) == rq[r].pc = pc

\* request r moves on
Goto(r, pc) == rq' = [rq EXCEPT ![r].pc = pc]

\* part_004:126-131  a call of the try block threw
Caught(r, call) == rq' = [rq EXCEPT ![r].pc = "catch", ![r].threw = call]

\* part_004:50-58  multer has written req.file.path; optionalAuth has set
\* req.user; an anonymous client is checked first
RqArrive(r, user) ==
  /\ At(r, "idle")
  /\ rq' = [rq EXCEPT ![r] = [pc |-> IF user = Anonymous THEN "check" ELSE "upload",
                               user |-> user, count |-> 0, tmp |-> TRUE,
                               threw |-> "", unlinkErr |-> FALSE, status |-> None]]
  /\ UNCHANGED <<pipelineVars, subVars, reqVars, uploadVars, healthVars, lateVars, anonAccepted>>

\* part_004:62-64, lib/ratelimit.js:14-26  checkAnonUploadLimit: GET of the
\* counter (ok: Redis answers)
RqCheck(r, ok) ==
  /\ At(r, "check")
  /\ IF ~ok THEN Caught(r, "checkAnonUploadLimit")
     ELSE rq' = [rq EXCEPT ![r].count = anonUploads,
                           ![r].pc = IF Allowed(anonUploads) THEN "incr" ELSE "reject"]
  /\ UNCHANGED <<pipelineVars, subVars, reqVars, uploadVars, healthVars, lateVars, anonAccepted>>

\* part_004:64-73  not allowed: unlink of the temporary file (an error of it
\* is swallowed), 401
RqReject(r, ok) ==
  /\ At(r, "reject")
  /\ rq' = [rq EXCEPT ![r].tmp = @ /\ ~ok, ![r].unlinkErr = ~ok,
                      ![r].status = 401, ![r].pc = "done"]
  /\ UNCHANGED <<pipelineVars, subVars, reqVars, uploadVars, healthVars, lateVars, anonAccepted>>

\* lib/ratelimit.js:39  if (newCount === 1)
FirstUpload(newCount) == newCount = 1

\* part_004:76, lib/ratelimit.js:33-37  incrementAnonUpload: INCR of the
\* counter
RqIncr(r, ok) ==
  /\ At(r, "incr")
  /\ IF ~ok THEN Caught(r, "incr") /\ UNCHANGED anonUploads
     ELSE /\ anonUploads' = anonUploads + 1
          /\ Goto(r, IF FirstUpload(anonUploads + 1) THEN "expire" ELSE "upload")
  /\ UNCHANGED <<pipelineVars, subVars, reqVars, up, anonTtl, originals, videos, healthVars, lateVars,
                 anonAccepted>>

\* lib/ratelimit.js:39-42  incrementAnonUpload: EXPIRE of the counter, a
\* second command after the INCR
RqExpire(r, ok) ==
  /\ At(r, "expire")
  /\ IF ~ok THEN Caught(r, "expire") /\ UNCHANGED anonTtl
     ELSE anonTtl' = TRUE /\ Goto(r, "upload")
  /\ UNCHANGED <<pipelineVars, subVars, reqVars, up, anonUploads, originals, videos, healthVars, lateVars,
                 anonAccepted>>

\* part_004:80-84  storage.uploadFile of the original
RqStore(r, ok) ==
  /\ At(r, "upload")
  /\ IF ~ok THEN Caught(r, "uploadFile") /\ UNCHANGED originals
     ELSE /\ originals < NumJobs + MaxOrphans
          /\ originals' = originals + 1
          /\ Goto(r, "unlink")
  /\ UNCHANGED <<pipelineVars, subVars, reqVars, up, anonUploads, anonTtl, videos, healthVars, lateVars,
                 anonAccepted>>

\* part_004:85  fs.unlink(req.file.path)
RqUnlink(r, ok) ==
  /\ At(r, "unlink")
  /\ IF ~ok THEN Caught(r, "unlink")
     ELSE rq' = [rq EXCEPT ![r].tmp = FALSE, ![r].pc = "add"]
  /\ UNCHANGED <<pipelineVars, subVars, reqVars, uploadVars, healthVars, lateVars, anonAccepted>>

\* part_004:88-125  videoQueue.add, the videos row of a signed-in user (a
\* failed insert is only logged), the answer with the job id
RqAdd(r, j, ok, dbOk) ==
  /\ At(r, "add")
  /\ IF ~ok
       THEN /\ Caught(r, "add")
            /\ UNCHANGED <<state, wait, videos, anonAccepted>>
       ELSE /\ state[j] = "none"
            /\ \A i \in Jobs : i < j => state[i] # "none"
            /\ state' = [state EXCEPT ![j] = "waiting"]
            /\ wait' = Append(wait, j)
            /\ videos' = IF rq[r].user # Anonymous /\ dbOk THEN videos \cup {j} ELSE videos
            /\ anonAccepted' = IF rq[r].user = Anonymous THEN anonAccepted + 1
                                ELSE anonAccepted
            /\ rq' = [rq EXCEPT ![r].status = 200, ![r].pc = "done"]
  /\ UNCHANGED <<attemptsMade, stalledCount, progress, returnvalue, failedReason, timer, lock,
                 objects, scratch, stream, slotVars, histVars, subVars, reqVars, up,
                 anonUploads, anonTtl, originals, healthVars, lateVars>>

\* (mutant) a catch block that only answers
CatchUnlinks_Not == FALSE

\* part_004:129  await fs.unlink(req.file.path).catch(() => {})
CatchUnlinks == TRUE

\* part_004:126-131  catch: unlink of the temporary file (an error of it, as
\* for a file that is already removed, is swallowed), 500
RqCatch(r, ok) ==
  /\ At(r, "catch")
  /\ rq' = [rq EXCEPT ![r].tmp = IF CatchUnlinks THEN @ /\ ~ok ELSE @,
                      ![r].unlinkErr = @ \/ (rq[r].tmp /\ ~ok),
                      ![r].status = 500, ![r].pc = "done"]
  /\ UNCHANGED <<pipelineVars, subVars, reqVars, uploadVars, healthVars, lateVars, anonAccepted>>

\* the answer is sent; the next request
RqDone(r) ==
  /\ At(r, "done")
  /\ rq' = [rq EXCEPT ![r] = NoUploadRequest]
  /\ UNCHANGED <<pipelineVars, subVars, reqVars, uploadVars, healthVars, lateVars, anonAccepted>>

\* no upload request is being handled
Quiet == \A r \in Reqs : rq[r].pc \in {"idle", "done"}

(* --------------------- SIGTERM in the worker process ------------------- *)

\* worker.js:5  the Worker (and the jobs it holds) talk to the queue over
\* the connection imported from lib/queue.js
Connected == wconn = "ready"

\* SIGTERM arrives: both listeners are called, worker.js:78-82 and (the module
\* worker.js imports) part_001:47-52; each runs up to its first await
Sigterm ==
  /\ term = NoSigterm
  /\ term' = [worker |-> "close", queue |-> "closeQueue"]
  /\ UNCHANGED <<pipelineVars, subVars, reqVars, uploadVars, healthVars, anonVars, syncVars,
                 wconn>>

\* the queue module's listener reaches its next await
\* (part_001:49 videoQueue.close(), :50 queueEvents.close())
TermQueueStep ==
  /\ term.worker # "exited"
  /\ term.queue \in {"closeQueue", "closeEvents"}
  /\ term' = [term EXCEPT !.queue = IF @ = "closeQueue" THEN "closeEvents" ELSE "quit"]
  /\ UNCHANGED <<pipelineVars, subVars, reqVars, uploadVars, healthVars, anonVars, syncVars,
                 wconn>>

\* part_001:51  connection.quit(): the connection is closed for good
TermQuit ==
  /\ term.worker # "exited"
  /\ term.queue = "quit"
  /\ term' = [term EXCEPT !.queue = "done"]
  /\ wconn' = "end"
  /\ UNCHANGED <<pipelineVars, subVars, reqVars, uploadVars, healthVars, anonVars, syncVars>>

\* worker.js:80-81  worker.close() resolves once no attempt is running in
\* this Worker; process.exit(0)
TermExit ==
  /\ term.worker = "close"
  /\ \A s \in Slots : sJob[s] = None
  /\ term' = [term EXCEPT !.worker = "exited"]
  /\ UNCHANGED <<pipelineVars, subVars, reqVars, uploadVars, healthVars, anonVars, syncVars,
                 wconn>>

\* a closing Worker fetches no further job
Fetching == term.worker = "none"

\* worker.js:64-68 on a closed connection: scratch removed, return output;
\* the queue's command to record the result fails, the ledger keeps the job
\* as it was
CompleteLost(s) ==
  /\ sPc[s] = "cleanup"
  /\ ~Connected
  /\ scratch' = [scratch EXCEPT ![sJob[s]] = rm]
  /\ Release(s)
  /\ UNCHANGED <<ledgerVars, objects, stream, histVars, subVars, reqVars, uploadVars, restVars>>

(* ------------------- server.js: the synchronous server ----------------- *)

\* server.js:32-64  POST /api/upload: the job is entered as pending and
\* transcodeVideo is started without being awaited
SyncUpload(j) ==
  /\ sjob[j].status = "none"
  /\ sjob' = [sjob EXCEPT ![j] = [NoSyncJob EXCEPT !.status = "pending", !.pc = "mkdir"]]
  /\ UNCHANGED <<pipelineVars, subVars, reqVars, uploadVars, healthVars, anonVars, termVars,
                 sres>>

\* server.js:51-57  transcodeVideo(...).catch: the promise rejected
SyncCaught(job) == [job EXCEPT !.status = "failed", !.pc = "done"]

\* server.js:100-112  fs.mkdir of the output directory (ok: it succeeds), then
\* status 'processing'
SyncMkdir(j, ok) ==
  /\ sjob[j].pc = "mkdir"
  /\ sjob' = [sjob EXCEPT ![j] = IF ok THEN [@ EXCEPT !.status = "processing", !.pc = "ffmpeg"]
                                   ELSE SyncCaught(@)]
  /\ UNCHANGED <<pipelineVars, subVars, reqVars, uploadVars, healthVars, anonVars, termVars,
                 sres>>

\* server.js:128-135  the tool's 'progress' event
SyncProgress(j, percent) ==
  /\ sjob[j].pc = "ffmpeg"
  /\ sjob' = [sjob EXCEPT ![j].progress = TotalProgress(sjob[j].completedQualities, percent)]
  /\ UNCHANGED <<pipelineVars, subVars, reqVars, uploadVars, healthVars, anonVars, termVars,
                 sres>>

\* server.js:136-141  the tool's 'end' event: completedQualities++, the output
\* path is entered, resolve(); the loop goes on or is left
SyncEnd(j) ==
  /\ sjob[j].pc = "ffmpeg"
  /\ LET k == sjob[j].completedQualities + 1 IN
     sjob' = [sjob EXCEPT ![j].completedQualities = k,
                          ![j].outputs = @ \cup {qualities[k]},
                          ![j].pc = IF k = Len(qualities) THEN "finish" ELSE "ffmpeg"]
  /\ UNCHANGED <<pipelineVars, subVars, reqVars, uploadVars, healthVars, anonVars, termVars,
                 sres>>

\* server.js:142-145  the tool's 'error' event: reject(err)
SyncError(j) ==
  /\ sjob[j].pc = "ffmpeg"
  /\ sjob' = [sjob EXCEPT ![j] = SyncCaught(@)]
  /\ UNCHANGED <<pipelineVars, subVars, reqVars, uploadVars, healthVars, anonVars, termVars,
                 sres>>

\* server.js:151-152  status 'completed', progress 100
SyncFinish(j) ==
  /\ sjob[j].pc = "finish"
  /\ sjob' = [sjob EXCEPT ![j].status = "completed", ![j].progress = 100, ![j].pc = "unlink"]
  /\ UNCHANGED <<pipelineVars, subVars, reqVars, uploadVars, healthVars, anonVars, termVars,
                 sres>>

\* server.js:154  await fs.unlink(inputPath), inside transcodeVideo (ok: it
\* succeeds)
SyncUnlink(j, ok) ==
  /\ sjob[j].pc = "unlink"
  /\ sjob' = [sjob EXCEPT ![j] = IF ok THEN [@ EXCEPT !.pc = "done"] ELSE SyncCaught(@)]
  /\ UNCHANGED <<pipelineVars, subVars, reqVars, uploadVars, healthVars, anonVars, termVars,
                 sres>>

\* server.js:80-93  GET /api/jobs/:id/status of a job of the map
SyncStatus(j) ==
  /\ sjob[j].status # "none"
  /\ sres' = [id |-> j, status |-> sjob[j].status, progress |-> sjob[j].progress,
              outputs |-> IF sjob[j].status = "completed" THEN sjob[j].outputs ELSE {}]
  /\ UNCHANGED <<pipelineVars, subVars, reqVars, uploadVars, healthVars, anonVars, termVars,
                 sjob>>

(* --------------------------- GET /api/health --------------------------- *)

\* connection.status, as the Redis client reports it
ConnStatuses == {"wait", "connecting", "connect", "ready", "reconnecting", "close", "end"}

\* what the queue's queries of one health check do: both answer, or
\* getJobCounts() or getWorkers() throws
QueryFaults == {"none", "getJobCounts", "getWorkers"}

\* the server's Redis connection changes its status
ConnChange(st) ==
  /\ st # conn
  /\ conn' = st
  /\ UNCHANGED <<pipelineVars, subVars, reqVars, uploadVars, workers, health, anonVars, lateVars>>

\* worker.js:72-75  a Worker process comes up and registers on the queue
WorkerStart ==
  /\ workers < MaxWorkers
  /\ workers' = workers + 1
  /\ UNCHANGED <<pipelineVars, subVars, reqVars, uploadVars, conn, health, anonVars, lateVars>>

\* a Worker process goes away
WorkerStop ==
  /\ workers > 0
  /\ workers' = workers - 1
  /\ UNCHANGED <<pipelineVars, subVars, reqVars, uploadVars, conn, health, anonVars, lateVars>>

\* (mutant) the check of the worker list is left out
NoWorkers_Never(jobs_info) == FALSE

\* server-async.js:209  jobs_info.length === 0
NoWorkers(jobs_info) == jobs_info = 0

\* server-async.js:194-230  the answer of one health check
HealthAnswer(con_status, jobs_info, fault) ==
  IF con_status # "ready"
    THEN [status |-> 503, body |-> "Server not connected to Redis", fault |-> fault]
  ELSE IF fault # "none"
    THEN [status |-> 503, body |-> "unhealthy", fault |-> fault]
  ELSE IF NoWorkers(jobs_info)
    THEN [status |-> 503, body |-> "Unhealthy", fault |-> fault]
  ELSE [status |-> 200, body |-> "healthy", fault |-> fault]

\* GET /api/health
Health(fault) ==
  /\ health' = HealthAnswer(conn, workers, fault)
  /\ UNCHANGED <<pipelineVars, subVars, reqVars, uploadVars, conn, workers, anonVars, lateVars>>

(* ------------------- GET /api/stream/:id/:quality ---------------------- *)

\* property names every object parsed from JSON inherits
ObjectPrototypeKeys == {"constructor", "toString", "__proto__"}

\* :quality as requests send it: a configured variant, another name, and a
\* name that is a property of every object
QualityParams == {"720p", "480p", "constructor"}

\* the characters a Range header is made of here: the text "bytes=" (what the
\* pattern /bytes=/ matches), another unit, "-", decimal digits, a letter
Digits == <<"0", "1", "2", "3", "4", "5", "6", "7", "8", "9">>
DigitChars == {Digits[i] : i \in 1..Len(Digits)}
DigitValue(ch) == (CHOOSE i \in 1..Len(Digits) : Digits[i] = ch) - 1

\* the Range header as requests send it: absent, or a sequence of characters
\*   bytes=0-1  bytes=1-  bytes=<size>-  bytes=0-9  bytes=3-1
\*   bytes=-1   bytes=x-1  bytes=0-x  items=0-1
RangeHeaders ==
  { NoRange,
    <<"bytes=", "0", "-", "1">>,
    <<"bytes=", "1", "-">>,
    <<"bytes=", Digits[ObjSize + 1], "-">>,
    <<"bytes=", "0", "-", "9">>,
    <<"bytes=", "3", "-", "1">>,
    <<"bytes=", "-", "1">>,
    <<"bytes=", "x", "-", "1">>,
    <<"bytes=", "0", "-", "x">>,
    <<"items=", "0", "-", "1">> }

\* the number parseInt gives for a text that does not start with a digit
NaN == -1000
IsNaN(x) == x = NaN

\* range.replace(/bytes=/, ""): the first "bytes=" is taken out
RECURSIVE StripUnit(_)
StripUnit(h) ==
  IF h = <<>> THEN <<>>
  ELSE IF Head(h) = "bytes=" THEN Tail(h)
  ELSE <<Head(h)>> \o StripUnit(Tail(h))

\* .split("-"): the texts between the "-" characters
RECURSIVE Split(_)
Split(h) ==
  IF h = <<>> THEN <<(<<>>)>>
  ELSE LET rest == Split(Tail(h)) IN
       IF Head(h) = "-" THEN <<(<<>>)>> \o rest
       ELSE <<(<<Head(h)>> \o Head(rest))>> \o Tail(rest)

\* parseInt(text, 10): the value of the leading decimal digits, NaN without one
RECURSIVE LeadingDigits(_, _)
LeadingDigits(text, acc) ==
  IF text = <<>> \/ Head(text) \notin DigitChars THEN acc
  ELSE LeadingDigits(Tail(text), 10 * acc + DigitValue(Head(text)))
ParseInt(text) ==
  IF text = <<>> \/ Head(text) \notin DigitChars THEN NaN
  ELSE LeadingDigits(text, 0)

\* arithmetic on numbers one of which may be NaN
JsSub(x, y) == IF IsNaN(x) \/ IsNaN(y) THEN NaN ELSE x - y
JsAdd(x, y) == IF IsNaN(x) \/ IsNaN(y) THEN NaN ELSE x + y

\* server-async.js:265-268  start, end and chunksize of a Range header
ParseRange(range, fileSize) ==
  LET parts == Split(StripUnit(range))
      start == ParseInt(parts[1])
      end == IF Len(parts) >= 2 /\ parts[2] # <<>> THEN ParseInt(parts[2])
             ELSE fileSize - 1
  IN [start |-> start, end |-> end, chunksize |-> JsAdd(JsSub(end, start), 1)]

\* what the object store does with GetObject Range: bytes=<start>-<end> on an
\* object of fileSize bytes: the bytes it returns as <<first, last>>, or <<>>
\* when it answers with an error (the send throws). A range that starts
\* inside the object is cut at the object's end; one that starts at or after
\* the end is refused; a range that is no byte range at all (NaN, start > end)
\* is refused by some stores and ignored (the whole object) by others.
GatewayOnBadRange == {"refuse", "ignore"}
RangedRead(start, end, fileSize, gw) ==
  IF IsNaN(start) \/ IsNaN(end) \/ start > end
    THEN IF gw = "refuse" THEN <<>> ELSE <<0, fileSize - 1>>
  ELSE IF start >= fileSize THEN <<>>
  ELSE <<start, IF end < fileSize THEN end ELSE fileSize - 1>>

NoKey == <<None, "">>
Inherited == <<None, "inherited">>

\* server-async.js:246-247  outputs?.[quality] on the job's returnvalue
ResultLookup(rv, j, q) ==
  IF rv = {} THEN NoKey
  ELSE IF q \in rv THEN <<j, q>>
  ELSE IF q \in ObjectPrototypeKeys THEN Inherited
  ELSE NoKey

\* (mutant) the handler gates on the variant key's existence in the store
Resolve_ByKey(st, rv, j, q) ==
  IF <<j, q>> \in objects THEN [error |-> "", key |-> <<j, q>>]
  ELSE [error |-> "Video not found", key |-> NoKey]

\* server-async.js:239-251  what the handler decides from the job it got, the
\* state it read and the result map of its snapshot: an error answer, or the
\* object key to stream
Resolve(st, rv, j, q) ==
  IF st = "none" THEN [error |-> "Video not found", key |-> NoKey]
  ELSE IF st # "completed" THEN [error |-> "Video still processing", key |-> NoKey]
  ELSE IF ResultLookup(rv, j, q) = NoKey
    THEN [error |-> "Quality not available", key |-> NoKey]
  ELSE [error |-> "", key |-> ResultLookup(rv, j, q)]

ErrorResponse(code, msg) ==
  [NoResponse EXCEPT !.status = code, !.error = msg]

\* server-async.js:254-303  the try block: HeadObject, then the ranged or the
\* full GetObject; any throw is answered 500 'Streaming Error'
Streamed(key, range, gw) ==
  IF key \notin objects
    THEN [ErrorResponse(500, "Streaming Error") EXCEPT !.reads = {"head"}]
  ELSE LET fileSize == ObjSize IN
    IF range # NoRange
      THEN LET r == ParseRange(range, fileSize)
               bytes == RangedRead(r.start, r.end, fileSize, gw)
           IN IF bytes = <<>>
                THEN [ErrorResponse(500, "Streaming Error") EXCEPT !.reads = {"head", "get"}]
                ELSE [NoResponse EXCEPT
                       !.status = 206,
                       !.headers = {"Content-Range", "Accept-Ranges", "Content-Length",
                                    "Content-Type"},
                       !.contentRange = [unit |-> "bytes ", start |-> r.start, sep |-> " -",
                                          end |-> r.end, size |-> fileSize],
                       !.acceptRanges = "bytes",
                       !.contentLength = r.chunksize,
                       !.contentType = "video/mp4",
                       !.body = bytes,
                       !.reads = {"head", "get"}]
      ELSE [NoResponse EXCEPT
                 !.status = 200,
                 !.headers = {"Content-Type"},
                 !.contentType = "video/mp4",
                 !.body = <<0, fileSize - 1>>,
                 !.reads = {"head", "get"}]

\* server-async.js:233-240  videoQueue.getJob(id): 404 'Video not found', or
\* the handler holds its snapshot of the job
StreamGetJob(j, q, range) ==
  /\ req.pc = "idle"
  /\ IF state[j] = "none"
       THEN /\ req' = [pc |-> "done", id |-> j, quality |-> q, range |-> range,
                       returnvalue |-> {}, state |-> "none"]
            /\ res' = ErrorResponse(404, Resolve("none", {}, j, q).error)
       ELSE /\ req' = [pc |-> "gotJob", id |-> j, quality |-> q, range |-> range,
                       returnvalue |-> returnvalue[j], state |-> ""]
            /\ UNCHANGED res
  /\ UNCHANGED <<pipelineVars, subVars, uploadVars, restVars>>

\* server-async.js:241-303  job.getState(), then the answer
StreamRespond ==
  /\ req.pc = "gotJob"
  /\ LET d == Resolve(state[req.id], req.returnvalue, req.id, req.quality) IN
     \E gw \in GatewayOnBadRange :
       res' = IF d.error # "" THEN ErrorResponse(404, d.error)
              ELSE Streamed(d.key, req.range, gw)
  /\ req' = [req EXCEPT !.pc = "done", !.state = state[req.id]]
  /\ UNCHANGED <<pipelineVars, subVars, uploadVars, restVars>>

\* the response has gone out; the next request may come
StreamFinish ==
  /\ req.pc = "done"
  /\ req' = NoRequest
  /\ res' = NoResponse
  /\ UNCHANGED <<pipelineVars, subVars, uploadVars, restVars>>

DeliveryNext(JS) ==
  \/ \E j \in JS, q \in QualityParams, r \in RangeHeaders : StreamGetJob(j, q, r)
  \/ StreamRespond
  \/ StreamFinish

SubNext(CS, JS) ==
  \/ \E c \in CS, j \in JS : SubGetJob(c, j)
  \/ \E c \in CS : SubRegister(c)
  \/ \E c \in CS : Heartbeat(c)
  \/ \E c \in CS : ReqClose(c)

PipelineNext(JS, SS) ==
  \/ \E j \in JS : Submit(j)
  \/ \E s \in SS : Claim(s)
  \/ \E j \in JS : Tick(j)
  \/ \E j \in JS : Promote(j)
  \/ \E j \in JS : LockExpire(j)
  \/ \E j \in JS : StalledCheck(j)
  \/ \E s \in SS, p \in ToolPercents : Rising(s, p) /\ ToolProgress(s, p)
  \/ \E s \in SS : ToolEnd(s)
  \/ \E s \in SS : UploadRejects(s)
  \/ \E s \in SS : Complete(s)
  \/ \E s \in SS : Throw(s)
  \/ \E s \in SS : Restart(s)
  \/ Dispatch

\* the workers keep renewing their locks and every upload succeeds
SteadyNext(JS, SS, PS) ==
  \/ \E j \in JS : Submit(j)
  \/ \E s \in SS : Claim(s)
  \/ \E j \in JS : Tick(j)
  \/ \E j \in JS : Promote(j)
  \/ \E s \in SS, p \in PS : Rising(s, p) /\ ToolProgress(s, p)
  \/ \E s \in SS : ToolEnd(s)
  \/ \E s \in SS : Complete(s)
  \/ \E s \in SS : Throw(s)
  \/ Dispatch

UploadNext(JS) ==
  \/ \E j \in JS, file \in BOOLEAN, user \in Users, fault \in Faults :
       Upload(j, file, user, fault)
  \/ AnonExpire

OneJob == {1}
OneSlot == {1}

\* the ledger and the worker slots: one job, every slot
Next == PipelineNext(OneJob, Slots)

\* one job, one slot, the progress stream's subscriptions
NextSSE ==
  \/ PipelineNext(OneJob, OneSlot)
  \/ SubNext(Subs, OneJob)
  \/ \E c \in Subs : EarlyClose(c)

\* every job, one slot that keeps its leases, a tool that reports 100 once
\* per variant, the progress stream's subscriptions
NextFan == SteadyNext(Jobs, OneSlot, {100}) \/ SubNext(Subs, Jobs)

\* one job, one slot, delivery requests for it and for an id never submitted
NextDelivery == PipelineNext(OneJob, OneSlot) \/ DeliveryNext(Jobs)

\* uploads of every kind, one slot that takes the jobs and reports progress
NextUpload ==
  \/ UploadNext(Jobs)
  \/ \E s \in OneSlot : Claim(s)
  \/ \E s \in OneSlot : Rising(s, 50) /\ ToolProgress(s, 50)
  \/ Dispatch

\* one job, one slot that keeps its lease, a tool that reports any percent in
\* any order
NextProgress ==
  \/ \E j \in OneJob : Submit(j)
  \/ \E s \in OneSlot : Claim(s)
  \/ \E s \in OneSlot, p \in AllPercents : ToolProgress(s, p)
  \/ \E s \in OneSlot : ToolEnd(s)
  \/ \E s \in OneSlot : Complete(s)
  \/ Dispatch

\* the health endpoint, the connection and the Worker processes
NextHealth ==
  \/ \E st \in ConnStatuses : ConnChange(st)
  \/ WorkerStart
  \/ WorkerStop
  \/ \E fault \in QueryFaults : Health(fault)

\* every job, one slot that keeps its leases, uploads that may fail
NextIsolation ==
  \/ \E j \in Jobs : Submit(j)
  \/ \E s \in OneSlot : Claim(s)
  \/ \E j \in Jobs : Tick(j)
  \/ \E j \in Jobs : Promote(j)
  \/ \E s \in OneSlot : ToolEnd(s)
  \/ \E s \in OneSlot : UploadRejects(s)
  \/ \E s \in OneSlot : Complete(s)
  \/ \E s \in OneSlot : Throw(s)
  \/ Dispatch

\* concurrent upload requests of one client address, each call of the handler
\* a step that succeeds or throws; the counter's key outlives every request
NextAnon ==
  \/ \E r \in Reqs, user \in Users : RqArrive(r, user)
  \/ \E r \in Reqs, ok \in BOOLEAN : RqCheck(r, ok)
  \/ \E r \in Reqs, ok \in BOOLEAN : RqReject(r, ok)
  \/ \E r \in Reqs, ok \in BOOLEAN : RqIncr(r, ok)
  \/ \E r \in Reqs, ok \in BOOLEAN : RqExpire(r, ok)
  \/ \E r \in Reqs, ok \in BOOLEAN : RqStore(r, ok)
  \/ \E r \in Reqs, ok \in BOOLEAN : RqUnlink(r, ok)
  \/ \E r \in Reqs, j \in Jobs, ok \in BOOLEAN, dbOk \in BOOLEAN : RqAdd(r, j, ok, dbOk)
  \/ \E r \in Reqs, ok \in BOOLEAN : RqCatch(r, ok)
  \/ \E r \in Reqs : RqDone(r)
  \/ Quiet /\ AnonExpire

\* one worker process with one slot in use, every job, SIGTERM
NextTerm ==
  \/ \E j \in Jobs : Submit(j)
  \/ \E s \in OneSlot : Fetching /\ Connected /\ Claim(s)
  \/ \E s \in OneSlot : ToolEnd(s)
  \/ \E s \in OneSlot : Connected /\ Complete(s)
  \/ \E s \in OneSlot : CompleteLost(s)
  \/ Dispatch
  \/ Sigterm
  \/ TermQueueStep
  \/ TermQuit
  \/ TermExit

\* the synchronous server: one job, its status endpoint
NextSync ==
  \/ \E j \in OneJob : SyncUpload(j)
  \/ \E j \in OneJob, ok \in BOOLEAN : SyncMkdir(j, ok)
  \/ \E j \in OneJob, p \in ToolPercents : SyncProgress(j, p)
  \/ \E j \in OneJob : SyncEnd(j)
  \/ \E j \in OneJob : SyncError(j)
  \/ \E j \in OneJob : SyncFinish(j)
  \/ \E j \in OneJob, ok \in BOOLEAN : SyncUnlink(j, ok)
  \/ \E j \in OneJob : SyncStatus(j)

Spec == Init /\ [][Next]_vars
SpecSync == Init /\ [][NextSync]_vars
SpecTerm == Init /\ [][NextTerm]_vars
SpecAnon == Init /\ [][NextAnon]_vars
SpecIsolation == Init /\ [][NextIsolation]_vars

\* the same steps; the tool run of a variant ends (by 'end' or by 'error'),
\* the upload started by 'end' settles, a function that can return or throw
\* does, and the queue's events are read
FairAttempts ==
  /\ WF_vars(Dispatch)
  /\ \A s \in OneSlot :
       WF_vars(ToolEnd(s) \/ UploadRejects(s) \/ Throw(s) \/ Complete(s))
SpecAttempts == Init /\ [][NextIsolation]_vars /\ FairAttempts
SpecHealth == Init /\ [][NextHealth]_vars
SpecProgress == Init /\ [][NextProgress]_vars
SpecUpload == Init /\ [][NextUpload]_vars
SpecSSE == Init /\ [][NextSSE]_vars
SpecFan == Init /\ [][NextFan]_vars
SpecDelivery == Init /\ [][NextDelivery]_vars

(* ------------------------------ claims --------------------------------- *)

\* C1: no two slots hold an unexpired claim on the same job at the same time.
C1_ExclusiveClaim ==
  \A s, t \in Slots :
    (s # t /\ sJob[s] # None /\ sJob[s] = sJob[t]) => ~(sLease[s] /\ sLease[t])

\* a slot whose claim expired still runs the job another slot now holds
C1_Witness ==
  \E s, t \in Slots :
    /\ s # t /\ sJob[s] # None /\ sJob[s] = sJob[t]
    /\ sLease[t] /\ ~sLease[s]

AllowedEdges ==
  {<<"queued", "active">>, <<"active", "completed">>, <<"active", "queued">>,
   <<"active", "failed">>}

\* C3: every change of a job's state (queued, active, completed, failed) is
\* one of queued->active, active->completed, active->queued, active->failed;
\* completed and failed are never left.
C3_AllowedEdges ==
  [][\A j \in Jobs :
       LET a == LedgerState(state[j])
           b == LedgerState(state'[j])
       IN (a # "none" /\ a # b) => <<a, b>> \in AllowedEdges]_vars

\* a slot whose claim expired is about to return its result for a job that
\* is already completed or failed
C3_Witness ==
  \E s \in Slots :
    /\ sJob[s] # None
    /\ sPc[s] = "cleanup"
    /\ state[sJob[s]] \in {"completed", "failed"}

\* C4: the progress values written to an open subscription (the snapshot's,
\* then the live events') never decrease.
C4_DeliveredProgressNonDecreasing ==
  [][\A c \in Subs :
       (subPc[c] = "listening" /\ subPc'[c] # "none") => subProg'[c] >= subProg[c]]_vars

\* C5: a subscription that is open on a completed or failed job still has
\* that job's terminal event ahead of it (so that it receives it and is ended).
C5_TerminalDelivered ==
  \A c \in Subs :
    (subPc[c] = "listening" /\ state[subJob[c]] \in {"completed", "failed"}) =>
      \E i \in 1..Len(stream) :
        stream[i].jobId = subJob[c] /\ stream[i].type \in {"completed", "failed"}

\* C6: once the terminal event has been written to a subscription, no further
\* write reaches its channel: no progress, no second terminal event, no
\* heartbeat.
C6_NothingAfterTerminal ==
  [][\A c \in Subs :
       subTerms[c] >= 1 =>
         \/ subPc'[c] = "none"
         \/ subNw'[c] = subNw[c] /\ subTerms'[c] = subTerms[c]]_vars

\* the heartbeat fired after the terminal event and its write was refused
C6_Witness ==
  \E c \in Subs : subTerms[c] = 1 /\ subErr[c] /\ subPc[c] = "ended"

C8_ReadOnlyWhenCompleted ==
  res.reads # {} => state[req.id] = "completed"

\* a request for a variant whose object exists while the job is not completed
\* is answered 'still processing' without a read
C8_Witness ==
  /\ req.pc = "done"
  /\ req.state \in {"waiting", "delayed", "active", "failed"}
  /\ <<req.id, req.quality>> \in objects
  /\ res.error = "Video still processing"
  /\ res.reads = {}

\* C9: unknown job, job not completed and variant missing from the result are
\* answered 'not found', 'not ready' and 'variant unavailable', never the
\* generic streaming error.
C9_DistinctDeliveryErrors ==
  req.pc = "done" =>
    /\ req.state = "none" => res.error = "Video not found"
    /\ req.state \in {"waiting", "delayed", "active", "failed"} =>
         res.error = "Video still processing"
    /\ (req.state = "completed" /\ req.quality \notin returnvalue[req.id]) =>
         res.error = "Quality not available"

\* C10: a request without Range for an available variant of a job that was
\* completed when the request came is answered 200 with Content-Length equal
\* to the object's size and the whole object.
C10_FullBody ==
  (req.pc = "done" /\ req.range = NoRange /\ req.quality \in req.returnvalue) =>
    /\ res.status = 200
    /\ res.contentLength = ObjSize
    /\ res.body = <<0, ObjSize - 1>>

\* a Range header of the form bytes=<int>-[<int>]
WellFormed(h) ==
  /\ Len(h) >= 3
  /\ h[1] = "bytes="
  /\ \E k \in 3..Len(h) :
       /\ h[k] = "-"
       /\ \A i \in 2..(k - 1) : h[i] \in DigitChars
       /\ \A i \in (k + 1)..Len(h) : h[i] \in DigitChars

\* the request in flight was answered for an available variant of a job that
\* was completed, and carried a Range header
RangedRequestDone ==
  /\ req.pc = "done"
  /\ req.state = "completed"
  /\ req.quality \in req.returnvalue
  /\ req.range # NoRange

\* C11: a request with Range: bytes=a-b, 0 <= a <= b < size (b = size-1 when
\* omitted), for an available variant of a completed job is answered 206 with
\* Content-Range 'bytes a-b/size', Accept-Ranges 'bytes', Content-Length
\* b-a+1 and the bytes a..b read from the store with that range.
C11_RangeResponse ==
  (RangedRequestDone /\ WellFormed(req.range)) =>
    LET r == ParseRange(req.range, ObjSize) IN
    (0 <= r.start /\ r.start <= r.end /\ r.end < ObjSize) =>
      /\ res.status = 206
      /\ "Content-Range" \in res.headers
      /\ res.contentRange = [unit |-> "bytes ", start |-> r.start, sep |-> "-",
                             end |-> r.end, size |-> ObjSize]
      /\ res.acceptRanges = "bytes"
      /\ res.contentLength = r.end - r.start + 1
      /\ res.body = <<r.start, r.end>>
      /\ "get" \in res.reads

\* C12: a request whose range is out of bounds (start >= size, end >= size or
\* start > end) is answered range-not-satisfiable (416): not 206, not cut to
\* the object's bounds, not the generic streaming error.
C12_OutOfBoundsRejected ==
  (RangedRequestDone /\ WellFormed(req.range)) =>
    LET r == ParseRange(req.range, ObjSize) IN
    (r.start >= ObjSize \/ r.end >= ObjSize \/ r.start > r.end) => res.status = 416

\* C13: a request whose Range header is malformed is answered 416 or with the
\* 200 full-body response, never 206 with a Content-Range or Content-Length
\* computed from a start or end that is not a number.
C13_MalformedRange ==
  (RangedRequestDone /\ ~WellFormed(req.range)) =>
    \/ res.status = 416
    \/ res.status = 200 /\ res.body = <<0, ObjSize - 1>>

\* C14: when the slot holding a job's claim stops renewing it and attempts
\* remain (fewer than `attempts` claims were made on the job, abandoned ones
\* counted), the job goes back to the queue and not to failed.
C14_AbandonedClaimRequeued ==
  [][\A j \in Jobs :
       (state[j] = "active" /\ lock[j] = None /\ state'[j] # "active"
          /\ execs[j] < attempts)
         => state'[j] = "waiting"]_vars

C16_ResultIffCompleted ==
  \A j \in Jobs :
    /\ returnvalue[j] # {} <=> state[j] = "completed"
    /\ failedReason[j] # "" <=> state[j] = "failed"
    /\ Snapshot(state[j], returnvalue[j]).result # {} => state[j] = "completed"

\* C17: a completed job's result has exactly the configured variant names
\* 1080p, 720p and 360p as keys, each mapped to the key of an object that was
\* uploaded for that variant of that job.
C17_ResultHasAllVariants ==
  \A j \in Jobs :
    state[j] = "completed" =>
      /\ returnvalue[j] = {"1080p", "720p", "360p"}
      /\ \A q \in returnvalue[j] :
           /\ ResultLookup(returnvalue[j], j, q) = <<j, q>>
           /\ <<j, q>> \in objects

\* a job completed by its second attempt, after a first one that failed
C17_Witness ==
  \E j \in Jobs : state[j] = "completed" /\ attemptsMade[j] = 1 /\ execs[j] = 2

\* C18: the progress recorded for a completed job is 100, and a subscription
\* that was ended by the job's completed event had 100 as the last progress
\* written to it.
C18_ProgressEndsAt100 ==
  /\ \A j \in Jobs : state[j] = "completed" => progress[j] = 100
  /\ \A c \in Subs :
       (subPc[c] = "ended" /\ state[subJob[c]] = "completed") => subProg[c] = 100

\* C19: an upload answered with success has created exactly one job, waiting
\* in the queue with progress 0 and no attempt made, and returns its id; a
\* step that creates a job is always such an upload, so an upload answered
\* 400, 401 or 500 has created none.
C19_UploadCreatesOneJob ==
  [][LET created == {j \in Jobs : state[j] = "none" /\ state'[j] # "none"} IN
     /\ created # {} =>
          /\ Cardinality(created) = 1
          /\ up'.status = 200
          /\ \A j \in created :
               /\ up'.jobId = j
               /\ state'[j] = "waiting"
               /\ progress'[j] = 0
               /\ attemptsMade'[j] = 0
               /\ execs'[j] = 0
     /\ (up' # up /\ up'.status = 200) => created # {}
     /\ up'.status \in {400, 401, 500} => up'.jobId = None]_vars

\* an upload was answered 500 after its original was stored, a second job
\* was created while the first one is being worked on, and the anonymous
\* client is at its limit
C19_Witness ==
  /\ up.status = 200 /\ up.jobId = 2
  /\ state[1] = "active" /\ progress[1] > 0
  /\ originals > NumJobs
  /\ anonUploads = ANON_UPLOAD_LIMIT

\* C20: an attempt never uploads a variant under a key that an upload of an
\* earlier attempt of the job already wrote (within one attempt every variant
\* is uploaded once, so a key that exists was written by another attempt).
C20_AttemptScopedKeys ==
  [][\A s \in Slots :
       (sPc[s] = "ffmpeg" /\ sK'[s] = sK[s] + 1 /\ sPc'[s] # "hung") =>
         transcodeKey(sJob[s], qualities[sK'[s]], execs[sJob[s]]) \notin objects]_vars

\* C21: once a job is completed no attempt uploads to an object key that its
\* result map names (the bytes delivered stay those of the attempt that
\* completed the job).
C21_ResultKeysNotRewritten ==
  [][\A s \in Slots :
       (sPc[s] = "ffmpeg" /\ sK'[s] = sK[s] + 1 /\ sPc'[s] # "hung") =>
         LET j == sJob[s]
             key == transcodeKey(j, qualities[sK'[s]], execs[j])
         IN ~(state[j] = "completed"
              /\ \E q \in returnvalue[j] : ResultLookup(returnvalue[j], j, q) = key)]_vars

\* C22: when an attempt fails (the tool's 'error' for a variant), the attempt
\* is over, so no later variant is run in it; the job is retried or failed
\* with the error as reason and has no result; a result is never partial.
C22_ToolFailureEndsAttempt ==
  [][\A j \in Jobs :
       /\ attemptsMade'[j] # attemptsMade[j] =>
            /\ \E s \in Slots :
                 sJob[s] = j /\ lock[j] = s /\ sJob'[s] = None /\ sPc'[s] = "idle"
            /\ state'[j] = (IF attemptsMade'[j] < 3 THEN "delayed" ELSE "failed")
            /\ failedReason'[j] = "error"
            /\ returnvalue'[j] = {}
       /\ returnvalue'[j] \in {{}, {"1080p", "720p", "360p"}}]_vars

\* an attempt failed after its first variant was uploaded: the job waits for
\* its retry, nothing runs for it, and it has no result
C22_Witness ==
  \E j \in Jobs :
    /\ state[j] = "delayed" /\ attemptsMade[j] = 1
    /\ <<j, "1080p">> \in objects /\ <<j, "720p">> \notin objects
    /\ returnvalue[j] = {}
    /\ \A s \in Slots : sJob[s] # j

\* C23: after an attempt of a job ended in failure (none of the job's claims
\* was lost and nothing runs for it) the store holds no output object of the
\* job.
C23_FailedAttemptLeavesNoObject ==
  \A j \in Jobs :
    (state[j] \in {"delayed", "failed"} /\ stalledCount[j] = 0
       /\ \A s \in Slots : sJob[s] # j)
      => \A i \in 1..Len(qualities) : <<j, qualities[i]>> \notin objects

\* C24: when no attempt of a job is running (each one has returned or thrown),
\* the job's scratch directories are removed.
C24_ScratchRemoved ==
  \A j \in Jobs : (\A s \in Slots : sJob[s] # j) => ~scratch[j]

\* C25: an attempt whose three variants are transcoded and uploaded, and which
\* still holds its claim, ends by completing the job with the full result map,
\* whatever the scratch removal does.
C25_CleanupErrorNotFatal ==
  [][\A s \in Slots :
       (sPc[s] = "cleanup" /\ HoldsLock(s, sJob[s]) /\ sPc'[s] = "idle") =>
         /\ state'[sJob[s]] = "completed"
         /\ returnvalue'[sJob[s]] = Output(s)]_vars

\* the step is a report of slot s: its 'progress' handler has called
\* job.updateProgress and the queue has published the progress event
ProgressReported(s) ==
  /\ sPc[s] = "ffmpeg"
  /\ Len(stream') = Len(stream) + 1
  /\ stream'[Len(stream')].type = "progress"

\* C26: every value the worker reports is (variantsCompleted*100 + percent) / 3
\* rounded to the nearest integer (a missing percent counts as 0), it is the
\* value stored and published, and for a percent in 0..100 it lies in 0..100.
C26_ProgressFormula ==
  [][\A s \in OneSlot :
       ProgressReported(s) =>
         LET v == stream'[Len(stream')].data
             p == sPct'[s]
             x == sK[s] * 100 + p
         IN /\ progress'[sJob[s]] = v
            /\ 6 * v <= 2 * x + 3
            /\ 2 * x + 3 < 6 * v + 6
            /\ (p \in 0..100 => v \in 0..100)]_vars

\* 50 percent of the first variant is reported as 17 (16.67 rounded up)
C26_Witness ==
  \E s \in OneSlot :
    /\ sPc[s] = "ffmpeg" /\ sK[s] = 0 /\ sPct[s] = 50
    /\ progress[sJob[s]] = 17

\* C27: within an attempt the worker reports only a value that differs from
\* the one it reported last: a tick that leaves the rounded overall percent
\* unchanged produces no report and no event.
C27_ReportsOnlyOnChange ==
  [][\A s \in OneSlot :
       (ProgressReported(s) /\ sPct[s] # Undef) =>
         stream'[Len(stream')].data # progress[sJob[s]]]_vars

\* C28: while a job is active in one attempt its stored progress never
\* decreases (a lower report is clamped).
C28_ProgressMonotonic ==
  [][\A j \in Jobs :
       (state[j] = "active" /\ state'[j] = "active" /\ execs'[j] = execs[j]) =>
         progress'[j] >= progress[j]]_vars

\* C29: when a job that failed an attempt is claimed again, its stored
\* progress is 0.
C29_ProgressResetOnReclaim ==
  [][\A j \in Jobs :
       (attemptsMade[j] > 0 /\ state[j] # "active" /\ state'[j] = "active") =>
         progress'[j] = 0]_vars

\* C30: the listeners registered on queueEvents are those of the
\* subscriptions still open, and a subscription whose observer has
\* disconnected has no heartbeat timer: an observer that is gone has neither.
C30_ListenersOfOpenSubscriptions ==
  \A c \in Subs : subGone[c] => (~Listening(c) /\ ~subHb[c])

\* C31: the health endpoint answers 200 'healthy' only when the connection is
\* ready and a worker is registered; when the connection is not ready, no
\* worker is registered or a query throws, it answers 503.
C31_HealthAnswer ==
  [][health' # health =>
       LET ok == conn = "ready" /\ workers >= 1 /\ health'.fault = "none" IN
       /\ health'.status \in {200, 503}
       /\ health'.status = 200 <=> ok
       /\ health'.status = 200 => health'.body = "healthy"]_vars

\* answered 503 with a ready connection, because no worker is registered
C31_Witness ==
  /\ health.status = 503 /\ health.body = "Unhealthy"
  /\ conn = "ready" /\ workers = 0

\* C32: a failure of an attempt stays with its job and its slot goes on to
\* the next queued job: no slot sits on an attempt that has failed (its tool
\* or its upload) while a job is waiting in the queue.
C32_FailedAttemptFreesSlot ==
  \A s \in Slots : sPc[s] = "hung" => wait = <<>>

\* C33: at most one anonymous upload of a client address is accepted (checked,
\* counted and queued) before its counter expires, whatever the interleaving
\* of its requests.
C33_OneAnonymousUpload ==
  anonAccepted <= ANON_UPLOAD_LIMIT

\* C35: the counter of a client address is consumed only by uploads that were
\* queued: when no request is being handled and no anonymous upload has been
\* queued, the counter (its expiry set) is 0.
C35_CounterOnlyForQueued ==
  (Quiet /\ anonTtl /\ anonAccepted = 0) => anonUploads = 0

\* C36: a counter with a positive count carries an expiry (once the request
\* that created it is past its EXPIRE).
C36_CounterExpires ==
  anonUploads > 0 => (anonTtl \/ \E r \in Reqs : At(r, "expire"))

\* C37: when the handler answers a request that brought a file, the temporary
\* file is removed (unless an unlink of the existing file itself failed), on
\* every path: 200, 401 at the limit, 500 after any call threw; a second
\* removal of a file already removed leaves the answer as it is.
C37_TempFileRemoved ==
  \A r \in Reqs :
    At(r, "done") =>
      /\ ~rq[r].unlinkErr /\ rq[r].threw # "unlink" => ~rq[r].tmp
      /\ rq[r].status = (IF rq[r].threw # "" THEN 500
                         ELSE IF rq[r].user = Anonymous /\ ~Allowed(rq[r].count) THEN 401
                         ELSE 200)

\* the queue's add threw after the file was removed: the catch block's unlink
\* found no file and the answer is 500
C37_Witness ==
  \E r \in Reqs :
    At(r, "done") /\ rq[r].threw = "add" /\ ~rq[r].tmp /\ rq[r].status = 500

\* C34: every attempt terminates: a slot that runs processVideoJob for a job
\* eventually has returned or thrown, whatever the tool and the uploads did.
C34_AttemptTerminates ==
  \A s \in OneSlot : (sJob[s] # None) ~> (sJob[s] = None)

\* C38: in the worker process the Redis connection is not closed while an
\* attempt of this worker is still running.
C38_ConnectionOutlivesAttempts ==
  wconn = "end" => \A s \in Slots : sJob[s] = None

\* C39: in the synchronous server a job that is completed stays completed (it
\* never becomes failed), and a job that is failed stays failed.
C39_TerminalStatusKept ==
  [][\A j \in Jobs :
       sjob[j].status \in {"completed", "failed"} => sjob'[j].status = sjob[j].status]_vars

====
